---- MODULE Spec2Model ----
(***************************************************************************)
(* A model of task2.py: the ETL processor that reads a spreadsheet of      *)
(* personal records, validates every field and loads the result into a     *)
(* MySQL table that is recreated on each run.                              *)
(*                                                                         *)
(* Text is a sequence of pieces. A piece is one character ("7", " ") or a  *)
(* literal chunk of a format string ("Phone too short: "); the empty       *)
(* sequence is the empty string. A scalar held by a cell is a record       *)
(* [t, n, s]: t is its Python type, n its number (floats are counted in    *)
(* tenths, so 17.5 is n = 175) and s its text.                             *)
(***************************************************************************)
EXTENDS Integers, Sequences, FiniteSets, TLC

VARIABLES pc, raw, cols, canon, exc, db, stages, rc, fn, arg, res, prev

vars == <<pc, raw, cols, canon, exc, db, stages, rc, fn, arg, res, prev>>

----------------------------------------------------------------------------
(* Scalars *)

Cell(t, n, s) == [t |-> t, n |-> n, s |-> s]
PyNone == Cell("None", 0, <<>>)
NaN == Cell("nan", 0, <<>>)
Inf == Cell("inf", 0, <<>>)
PyInt(k) == Cell("int", k, <<>>)
PyFloat(h) == Cell("float", h, <<>>)
PyStr(s) == Cell("str", 0, s)

DigitSeq == <<"0", "1", "2", "3", "4", "5", "6", "7", "8", "9">>
Digit == {DigitSeq[i] : i \in 1..10}
Whitespace == {" ", "\t", "\n"}
Letter == {"a", "b", "c", "f", "i", "n", "A", "L", "R", "U", "M", "s", "k"}
WordChar == Letter \cup Digit \cup {"_"}

DigitVal(c) == CHOOSE d \in 0..9 : DigitSeq[d + 1] = c

RECURSIVE NatToStr(_)
NatToStr(k) == IF k < 10 THEN <<DigitSeq[k + 1]>>
               ELSE NatToStr(k \div 10) \o <<DigitSeq[(k % 10) + 1]>>

IntToStr(k) == IF k < 0 THEN <<"-">> \o NatToStr(-k) ELSE NatToStr(k)

Abs(k) == IF k < 0 THEN -k ELSE k

\* repr of a float counted in tenths: 175 -> "17.5", 180 -> "18.0", -5 -> "-0.5"
FloatToStr(h) == (IF h < 0 THEN <<"-">> ELSE <<>>) \o NatToStr(Abs(h) \div 10)
                 \o <<".", DigitSeq[(Abs(h) % 10) + 1]>>

\* str(x)
PyStrOf(x) == CASE x.t = "str" -> x.s
                [] x.t = "int" -> IntToStr(x.n)
                [] x.t = "float" -> FloatToStr(x.n)
                [] x.t = "nan" -> <<"n", "a", "n">>
                [] x.t = "inf" -> <<"i", "n", "f">>
                [] OTHER -> <<"None">>

\* pd.isna(x)
IsNa(x) == x.t \in {"None", "nan"}

\* not x
Falsy(x) == \/ x.t = "None"
            \/ x.t = "str" /\ x.s = <<>>
            \/ x.t \in {"int", "float"} /\ x.n = 0

----------------------------------------------------------------------------
(* Text helpers *)

RECURSIVE CollapseWs(_)
\* re.sub(r'\s+', ' ', text)
CollapseWs(s) ==
    IF s = <<>> THEN <<>>
    ELSE IF Head(s) \in Whitespace
         THEN IF Len(s) > 1 /\ s[2] \in Whitespace
              THEN CollapseWs(Tail(s))
              ELSE <<" ">> \o CollapseWs(Tail(s))
         ELSE <<Head(s)>> \o CollapseWs(Tail(s))

RECURSIVE LStrip(_)
LStrip(s) == IF s # <<>> /\ Head(s) \in Whitespace THEN LStrip(Tail(s)) ELSE s

RECURSIVE RStrip(_)
RStrip(s) == IF s # <<>> /\ s[Len(s)] \in Whitespace
             THEN RStrip(SubSeq(s, 1, Len(s) - 1)) ELSE s

\* str.strip()
Strip(s) == RStrip(LStrip(s))

\* str.startswith(p)
StartsWith(s, p) == Len(p) <= Len(s) /\ SubSeq(s, 1, Len(p)) = p

\* mutant of OnlyDigits: re.sub(r'[^\d+]', '', text), which keeps the plus sign
KeepPlusAndDigits(s) == SelectSeq(s, LAMBDA c : c \in Digit \cup {"+"})

\* re.sub(r'\D', '', text)
OnlyDigits(s) == SelectSeq(s, LAMBDA c : c \in Digit)

AllIn(s, S) == \A i \in 1..Len(s) : s[i] \in S

----------------------------------------------------------------------------
(* Diagnostics and results of a validator *)

Ok(v) == [value |-> v, err |-> <<>>, exc |-> ""]
Fail(msg) == [value |-> PyNone, err |-> msg, exc |-> ""]
Raise(e) == [value |-> PyNone, err |-> <<>>, exc |-> e]

\* remove_double_spaces(text)
remove_double_spaces(text) ==
    IF text.t = "str" THEN Strip(CollapseWs(text.s))
    ELSE IF text.t # "None" THEN PyStrOf(text) ELSE <<>>

EmailClass == WordChar \cup {".", "-"}

\* re.match(r'^[\w\.-]+@[\w\.-]+\.\w+$', s)
EmailMatch(s) ==
    \E i \in 2..Len(s) : \E j \in (i + 2)..(Len(s) - 1) :
        /\ s[i] = "@"
        /\ s[j] = "."
        /\ AllIn(SubSeq(s, 1, i - 1), EmailClass)
        /\ AllIn(SubSeq(s, i + 1, j - 1), EmailClass)
        /\ AllIn(SubSeq(s, j + 1, Len(s)), WordChar)

validate_email(email) ==
    IF IsNa(email) \/ Falsy(email) THEN Fail(<<"Email is empty">>)
    ELSE LET email_clean == remove_double_spaces(PyStr(PyStrOf(email)))
         IN IF EmailMatch(email_clean) THEN Ok(PyStr(email_clean))
            ELSE Fail(<<"Invalid email format: ">> \o email_clean)

----------------------------------------------------------------------------
(* Phone *)

CC(country, code, length) == [country |-> country, codes |-> <<code>>, length |-> length]

\* COUNTRY_CODES, in the dictionary's iteration order
COUNTRY_CODES == <<
    CC("RU", <<"7">>, 11), CC("UA", <<"3", "8", "0">>, 12),
    CC("BY", <<"3", "7", "5">>, 12), CC("KZ", <<"7">>, 11),
    CC("UZ", <<"9", "9", "8">>, 12), CC("AM", <<"3", "7", "4">>, 11),
    CC("AZ", <<"9", "9", "4">>, 12), CC("GE", <<"9", "9", "5">>, 12),
    CC("MD", <<"3", "7", "3">>, 11), CC("KG", <<"9", "9", "6">>, 12),
    CC("EE", <<"3", "7", "2">>, 11), CC("LV", <<"3", "7", "1">>, 11),
    CC("LT", <<"3", "7", "0">>, 11), CC("PL", <<"4", "8">>, 11),
    CC("DE", <<"4", "9">>, 12), CC("FR", <<"3", "3">>, 11),
    CC("IT", <<"3", "9">>, 11), CC("ES", <<"3", "4">>, 11),
    CC("GB", <<"4", "4">>, 12), CC("AE", <<"9", "7", "1">>, 12) >>

\* mutant of format_russian_phone: the '+' branch is tried before the local ones
format_plus_first(phone_digits, phone_raw) ==
    IF StartsWith(phone_raw, <<"+">>)
    THEN <<"+">> \o phone_digits
    ELSE IF StartsWith(phone_digits, <<"8">>) /\ Len(phone_digits) = 11
    THEN <<"+", "7">> \o Tail(phone_digits)
    ELSE IF StartsWith(phone_digits, <<"7">>) /\ Len(phone_digits) = 11
    THEN <<"+", "7">> \o Tail(phone_digits)
    ELSE IF StartsWith(phone_digits, <<"9">>) /\ Len(phone_digits) = 10
    THEN <<"+", "7">> \o phone_digits
    ELSE IF phone_digits # <<>> THEN <<"+">> \o phone_digits ELSE phone_digits

\* _format_russian_phone(phone_digits, phone_raw)
format_russian_phone(phone_digits, phone_raw) ==
    IF StartsWith(phone_digits, <<"8">>) /\ Len(phone_digits) = 11
    THEN <<"+", "7">> \o Tail(phone_digits)
    ELSE IF StartsWith(phone_digits, <<"7">>) /\ Len(phone_digits) = 11
    THEN <<"+", "7">> \o Tail(phone_digits)
    ELSE IF StartsWith(phone_digits, <<"9">>) /\ Len(phone_digits) = 10
    THEN <<"+", "7">> \o phone_digits
    ELSE IF StartsWith(phone_raw, <<"+">>)
    THEN <<"+">> \o phone_digits
    ELSE IF phone_digits # <<>> THEN <<"+">> \o phone_digits ELSE phone_digits

\* the length a number of this country must have, '+' included
expected_length(info, code) == Len(code) + 1 + (info.length - Len(code))

RECURSIVE ScanCodes(_, _, _)
\* the two nested loops of _validate_country_code, from country i, code j on
ScanCodes(phone_clean, i, j) ==
    IF i > Len(COUNTRY_CODES) THEN <<"Unknown country code">>
    ELSE LET info == COUNTRY_CODES[i]
         IN IF j > Len(info.codes) THEN ScanCodes(phone_clean, i + 1, 1)
            ELSE IF StartsWith(phone_clean, <<"+">> \o info.codes[j])
                 THEN IF Len(phone_clean) = expected_length(info, info.codes[j])
                      THEN <<>>
                      ELSE <<"Invalid length for ", info.country>>
                 ELSE ScanCodes(phone_clean, i, j + 1)

\* _validate_country_code(phone_clean)
validate_country_code(phone_clean) ==
    IF phone_clean = <<>> \/ ~StartsWith(phone_clean, <<"+">>)
    THEN <<"Missing country code">>
    ELSE ScanCodes(phone_clean, 1, 1)

validate_phone(phone) ==
    IF IsNa(phone) \/ Falsy(phone) THEN Fail(<<"Phone is empty">>)
    ELSE LET phone_raw == remove_double_spaces(PyStr(PyStrOf(phone)))
             phone_digits == OnlyDigits(phone_raw)
         IN IF Len(phone_digits) < 10
            THEN Fail(<<"Phone too short: ">> \o phone_raw)
            ELSE LET phone_clean == format_russian_phone(phone_digits, phone_raw)
                     validation_error == validate_country_code(phone_clean)
                 IN IF validation_error # <<>>
                    THEN Fail(<<"Invalid phone '">> \o phone_raw \o <<"': ">>
                              \o validation_error)
                    ELSE Ok(PyStr(phone_clean))

----------------------------------------------------------------------------
(* Age *)

\* the limits of the range check of validate_age
MinAge == 18
MaxAge == 120

\* A float is a kind (num, nan, inf, or the exception float() raised) and,
\* for num, the fraction num / den.
Num(num, den) == [k |-> "num", num |-> num, den |-> den]
Special(k) == [k |-> k, num |-> 0, den |-> 1]

RECURSIVE DigitsVal(_)
DigitsVal(s) == IF s = <<>> THEN 0
                ELSE 10 * DigitsVal(SubSeq(s, 1, Len(s) - 1)) + DigitVal(s[Len(s)])

RECURSIVE Pow10(_)
Pow10(k) == IF k = 0 THEN 1 ELSE 10 * Pow10(k - 1)

\* float(s) of an unsigned literal: "inf", "nan", digits, digits.digits,
\* digits. and .digits (exponents and underscores are not modelled)
ParseUnsigned(s) ==
    IF s = <<"i", "n", "f">> THEN Special("inf")
    ELSE IF s = <<"n", "a", "n">> THEN Special("nan")
    ELSE IF s # <<>> /\ AllIn(s, Digit) THEN Num(DigitsVal(s), 1)
    ELSE IF \E i \in 1..Len(s) :
                /\ s[i] = "."
                /\ Len(s) > 1
                /\ AllIn(SubSeq(s, 1, i - 1), Digit)
                /\ AllIn(SubSeq(s, i + 1, Len(s)), Digit)
    THEN LET i == CHOOSE i \in 1..Len(s) : s[i] = "."
             frac == SubSeq(s, i + 1, Len(s))
         IN Num(DigitsVal(SubSeq(s, 1, i - 1)) * Pow10(Len(frac)) + DigitsVal(frac),
                Pow10(Len(frac)))
    ELSE Special("ValueError")

\* float(s) of text: surrounding whitespace and one sign are accepted
ParseFloat(s) ==
    LET body == Strip(s)
        signed == body # <<>> /\ Head(body) \in {"+", "-"}
        u == ParseUnsigned(IF signed THEN Tail(body) ELSE body)
    IN IF signed /\ Head(body) = "-" /\ u.k = "num" THEN Num(-u.num, u.den) ELSE u

\* float(x)
PyFloatOf(x) == CASE x.t = "int" -> Num(x.n, 1)
                  [] x.t = "float" -> Num(x.n, 10)
                  [] x.t = "nan" -> Special("nan")
                  [] x.t = "inf" -> Special("inf")
                  [] x.t = "str" -> ParseFloat(x.s)
                  [] OTHER -> Special("TypeError")

\* mutant of PyRound: int(age_val), which drops the fraction
PyTruncate(num, den) == IF num >= 0 THEN num \div den ELSE -((-num) \div den)

\* round(num / den): to the nearest integer, a tie to the even one
PyRound(num, den) ==
    LET lo == num \div den
        twice == 2 * (num - lo * den)
    IN IF twice < den THEN lo
       ELSE IF twice > den THEN lo + 1
       ELSE IF lo % 2 = 0 THEN lo ELSE lo + 1

validate_age(age) ==
    IF IsNa(age) \/ (age.t = "str" /\ age.s = <<>>) THEN Fail(<<"Age is empty">>)
    ELSE LET age_val == PyFloatOf(age)
         IN CASE age_val.k \in {"ValueError", "TypeError"} ->
                     Fail(<<"Invalid age format: ">> \o PyStrOf(age))
              [] age_val.k = "nan" ->
                     \* round(nan) raises ValueError, which is caught
                     Fail(<<"Invalid age format: ">> \o PyStrOf(age))
              [] age_val.k = "inf" ->
                     \* round(inf) raises OverflowError, which is not caught
                     Raise("OverflowError")
              [] OTHER ->
                     LET age_int == PyRound(age_val.num, age_val.den)
                     IN IF MinAge <= age_int /\ age_int <= MaxAge
                        THEN Ok(PyInt(age_int))
                        ELSE Fail(<<"Age ">> \o IntToStr(age_int)
                                  \o <<" out of range (18-120)">>)

----------------------------------------------------------------------------
(* The table: extract_data and _validate_dataframe *)

\* COLUMN_MAP.values(), in order
Fields == <<"full_name", "phone", "country", "region", "email", "age">>
FieldSet == {Fields[i] : i \in 1..Len(Fields)}
string_columns == {"full_name", "phone", "country", "region", "email"}
required_fields == <<"full_name", "country", "region">>

\* row.get(field): None when the sheet has no such column
RowGet(row, present, field) == IF field \in present THEN row[field] ELSE PyNone

\* df[col] = df[col].apply(self.remove_double_spaces), for one row
CleanRow(row, present) ==
    [f \in FieldSet |->
        IF f \in string_columns /\ f \in present
        THEN PyStr(remove_double_spaces(row[f])) ELSE row[f]]

RECURSIVE Join(_)
\* "; ".join(row_errors)
Join(row_errors) ==
    IF row_errors = <<>> THEN <<>>
    ELSE IF Len(row_errors) = 1 THEN row_errors[1]
    ELSE row_errors[1] \o <<"; ">> \o Join(Tail(row_errors))

\* the diagnostic of one required field, or none
RequiredError(row, present, field) ==
    LET v == RowGet(row, present, field)
    IN IF IsNa(v) \/ Strip(PyStrOf(v)) = <<>>
       THEN <<  <<field, " is empty">>  >> ELSE <<>>

\* row_errors after the loop over required_fields
RequiredErrors(row, present) ==
    RequiredError(row, present, required_fields[1])
    \o RequiredError(row, present, required_fields[2])
    \o RequiredError(row, present, required_fields[3])

\* what a validator's diagnostic adds to row_errors
ErrList(r) == IF r.err # <<>> THEN <<r.err>> ELSE <<>>

\* mutant of BuildRow: the phone's diagnostic is appended before the email's
BuildRowPhoneFirst(row, present, e, p, a) ==
    IF a.exc # ""
    THEN [exc |-> a.exc, rec |-> <<>>]
    ELSE [exc |-> "",
          rec |-> [full_name |-> row["full_name"], phone |-> p.value,
                   country |-> row["country"], region |-> row["region"],
                   email |-> e.value, age |-> a.value,
                   errors |-> Join(RequiredErrors(row, present) \o ErrList(p)
                                   \o ErrList(e) \o ErrList(a))]]

\* the canonical record of a row, given what its three validators returned
BuildRow(row, present, e, p, a) ==
    IF a.exc # ""
    THEN [exc |-> a.exc, rec |-> <<>>]
    ELSE [exc |-> "",
          rec |-> [full_name |-> row["full_name"], phone |-> p.value,
                   country |-> row["country"], region |-> row["region"],
                   email |-> e.value, age |-> a.value,
                   errors |-> Join(RequiredErrors(row, present) \o ErrList(e)
                                   \o ErrList(p) \o ErrList(a))]]

\* One pass of the loop body of _validate_dataframe over a cleaned row: the
\* canonical record, or the exception that left the loop.
ValidateRow(row, present) ==
    BuildRow(row, present,
             validate_email(RowGet(row, present, "email")),
             validate_phone(RowGet(row, present, "phone")),
             validate_age(RowGet(row, present, "age")))

RECURSIVE validate_dataframe(_, _, _)

\* the loop of _validate_dataframe after row v: on to the next row, or out
AfterRow(v, rest, present, done) ==
    IF v.exc # "" THEN [exc |-> v.exc, df |-> <<>>]
    ELSE validate_dataframe(rest, present, Append(done, v.rec))

\* _validate_dataframe: rows in order, done collects the canonical records
validate_dataframe(rows, present, done) ==
    IF rows = <<>> THEN [exc |-> "", df |-> done]
    ELSE AfterRow(ValidateRow(Head(rows), present), Tail(rows), present, done)

\* df[list(COLUMN_MAP.values()) + ['errors']]: KeyError on a missing column
SelectColumns(v, present) ==
    IF v.exc # "" THEN v
    ELSE IF \E i \in 1..Len(required_fields) : required_fields[i] \notin present
    THEN [exc |-> "KeyError", df |-> <<>>]
    ELSE v

\* extract_data after read_excel: clean, validate, select the columns
extract_data(rows, present) ==
    SelectColumns(validate_dataframe([i \in 1..Len(rows) |-> CleanRow(rows[i], present)],
                                     present, <<>>),
                  present)

----------------------------------------------------------------------------
(* Inputs *)

\* the bounds of the model
MaxRows == 2
MaxDigits == 13
AgeTop == 125

Ann == <<"A", "n", "n">>
AnnLee == <<" ", "A", "n", " ", "\t", "L", " ">>
Blank == <<" ">>
GoodMail == <<"a", "@", "b", ".", "c", "a">>
SpacedMail == <<" ", "a", ".", "b", "@", "c", "-", "c", ".", "c", "a", " ">>
BadMail == <<"a", ".", ".", "b", "@", "@", "c">>
Abc == <<"a", "b", "c">>
Short == <<"1", "2", "3">>
Local8 == <<"8", "9", "2", "6", "1", "2", "3", "4", "5", "6", "7">>
Mobile9 == <<"9", "2", "6", "1", "2", "3", "4", "5", "6", "7">>
Nines == <<"+", "9", "9", "9", "9", "9", "9", "9", "9", "9", "9", "9">>
Kyiv == <<"+", "3", "8", "0", " ", "4", "4", "-", "1", "2", "3", "4", "5", "6", "7">>

\* what a cell of a text column of the sheet may hold (read_excel gives NaN
\* for a missing cell)
RequiredCells == {NaN, PyStr(Blank), PyStr(Ann), PyStr(AnnLee), PyInt(5)}
EmailCells == {NaN, PyStr(Blank), PyStr(GoodMail), PyStr(SpacedMail), PyStr(BadMail),
               PyInt(5)}
PhoneCells == {NaN, PyStr(Blank), PyStr(Short), PyStr(Local8), PyStr(Nines), PyStr(Kyiv)}
AgeCells == {NaN, PyStr(Blank), PyStr(Abc), PyInt(30), PyInt(121), PyFloat(175),
             PyStr(<<"4", "0">>), Inf}

Rec(full_name, phone, country, region, email, age) ==
    [f \in FieldSet |-> CASE f = "full_name" -> full_name
                          [] f = "phone" -> phone
                          [] f = "country" -> country
                          [] f = "region" -> region
                          [] f = "email" -> email
                          [] OTHER -> age]

\* every raw record over the cells above
RawRecords ==
    {Rec(n, p, c, r, e, a) : n \in RequiredCells, p \in PhoneCells, c \in RequiredCells,
                             r \in {NaN, PyStr(Blank), PyStr(Ann)}, e \in EmailCells, a \in AgeCells}

\* the records the tables of the whole run are made of
SampleRecords ==
    {Rec(n, p, PyStr(<<"R", "U">>), PyStr(<<"M", "s", "k">>), PyStr(GoodMail), a) :
        n \in {NaN, PyStr(AnnLee)}, p \in {PyStr(Short), PyStr(Local8)},
        a \in {PyInt(30), PyStr(Abc), Inf}}

RECURSIVE TablesOf(_)
TablesOf(k) == IF k = 0 THEN {<<>>}
               ELSE TablesOf(k - 1)
                    \cup {Append(t, r) : t \in {x \in TablesOf(k - 1) : Len(x) = k - 1},
                                          r \in SampleRecords}

\* the sheets read_excel may return: all columns, or one column missing
Sheets == {FieldSet, FieldSet \ {"region"}, FieldSet \ {"phone"}}

RepeatSeq(c, k) == [i \in 1..k |-> c]

\* raw phones: an optional lead, a prefix, an optional separator and a filler
\* digit repeated up to a total of 8..MaxDigits digits
PhonePrefixes ==
    {COUNTRY_CODES[i].codes[1] : i \in 1..Len(COUNTRY_CODES)}
    \cup {<<"8">>, <<"9">>, <<"1">>, <<"8", "9">>, <<"7", "9">>, <<"9", "9">>}
PhoneTexts ==
    {lead \o pre \o sep \o RepeatSeq(fill, k - Len(pre)) :
        lead \in {<<>>, <<"+">>, <<" ">>}, pre \in PhonePrefixes,
        sep \in {<<>>, <<"-">>}, fill \in {"0", "5"}, k \in 8..MaxDigits}

Blanks == {PyNone, NaN, PyStr(<<>>), PyStr(Blank), PyStr(<<" ", "\t", " ">>)}

EmailArgs == Blanks \cup EmailCells \cup {PyInt(0), PyFloat(175)}
PhoneArgs == Blanks \cup {PyStr(s) : s \in PhoneTexts} \cup PhoneCells
             \cup {PyStr(Mobile9), PyInt(0), PyInt(123), PyFloat(175)}
AgeTexts == {Abc, <<"n", "a", "n">>, <<"i", "n", "f">>, <<"-", "i", "n", "f">>,
             <<"1", "7", ".", "5">>, <<" ", "1", "8", ".", "5", "0", " ">>,
             <<"+", "4", "0">>, <<"1", "2", "0", ".", "4", "9">>, <<"1", "7", ".">>,
             <<".", "5">>, <<"1", "8", "a">>, <<"1", ".", "2", ".", "3">>, <<"-">>}
AgeArgs == Blanks \cup {PyStr(s) : s \in AgeTexts} \cup {Inf}
           \cup {PyInt(k) : k \in -3..AgeTop}
           \cup {PyFloat(h) : h \in -30..(10 * AgeTop)}

----------------------------------------------------------------------------
(* The run: main, run_etl and the database *)

\* the stages of run_etl as events, in the order the code calls them
FullRun == <<"recreate:start", "recreate:done", "extract:start", "extract:done",
             "load:start", "load:done">>

NoDb == [st |-> "none", rows |-> <<>>]
NoTable == [st |-> "db", rows |-> <<>>]
EmptyTable == [st |-> "table", rows |-> <<>>]
\* what an earlier run left behind
StaleTable == [st |-> "table", rows |-> <<"stale row">>]

\* main's return value: 1 when an exception reached it, else 0
main_returns(raised) == IF raised THEN 1 ELSE 0

\* mutant of OnRaise: the exception is logged and run_etl carries on
OnRaiseSwallow(stage) == CASE stage = "recreate" -> "extract"
                           [] stage = "extract" -> "load"
                           [] OTHER -> "summary"

\* where run_etl goes when a stage raises: the exception is logged and raised again
OnRaise(stage) == "exit"

Idle == Ok(PyNone)

Init ==
    /\ pc = "main"
    /\ raw \in TablesOf(MaxRows)
    /\ cols \in Sheets
    /\ db \in {NoDb, StaleTable}
    /\ canon = <<>> /\ exc = "" /\ stages = <<>> /\ rc = -1
    /\ fn = "" /\ arg = PyNone /\ res = Idle /\ prev = Idle

\* ETLProcessor(...): _validate_config raises on a missing key or file
Construct ==
    /\ pc = "main"
    /\ \/ /\ \E e \in {"ValueError", "FileNotFoundError"} : exc' = e
          /\ pc' = "exit"
          /\ rc' = main_returns(TRUE)
       \/ /\ pc' = "recreate_db"
          /\ UNCHANGED <<exc, rc>>
    /\ UNCHANGED <<raw, cols, canon, db, stages, fn, arg, res, prev>>

\* recreate_database_and_table, first connection: DROP DATABASE, CREATE DATABASE
RecreateDatabase ==
    /\ pc = "recreate_db"
    /\ stages' = Append(stages, "recreate:start")
    /\ \/ /\ db' \in {db, NoDb}
          /\ exc' = "mysql.connector.Error"
          /\ pc' = OnRaise("recreate")
          /\ rc' = IF pc' = "exit" THEN main_returns(TRUE) ELSE rc
       \/ /\ db' = NoTable
          /\ pc' = "create_table"
          /\ UNCHANGED <<exc, rc>>
    /\ UNCHANGED <<raw, cols, canon, fn, arg, res, prev>>

\* recreate_database_and_table, second connection: DROP TABLE, CREATE TABLE
CreateTable ==
    /\ pc = "create_table"
    /\ \/ /\ exc' = "mysql.connector.Error"
          /\ pc' = OnRaise("recreate")
          /\ rc' = IF pc' = "exit" THEN main_returns(TRUE) ELSE rc
          /\ UNCHANGED <<db, stages>>
       \/ /\ db' = EmptyTable
          /\ stages' = Append(stages, "recreate:done")
          /\ pc' = "extract"
          /\ UNCHANGED <<exc, rc>>
    /\ UNCHANGED <<raw, cols, canon, fn, arg, res, prev>>

\* extract_data returned or raised v
Extracted(v) ==
    IF v.exc # ""
    THEN /\ exc' = v.exc
         /\ stages' = Append(stages, "extract:start")
         /\ pc' = OnRaise("extract")
         /\ rc' = IF pc' = "exit" THEN main_returns(TRUE) ELSE rc
         /\ UNCHANGED canon
    ELSE /\ canon' = v.df
         /\ stages' = stages \o <<"extract:start", "extract:done">>
         /\ pc' = "load"
         /\ UNCHANGED <<exc, rc>>

\* extract_data: read_excel may fail; validation may raise
ExtractData ==
    /\ pc = "extract"
    /\ \/ /\ exc' = "read_excel failed"
          /\ stages' = Append(stages, "extract:start")
          /\ pc' = OnRaise("extract")
          /\ rc' = IF pc' = "exit" THEN main_returns(TRUE) ELSE rc
          /\ UNCHANGED canon
       \/ Extracted(extract_data(raw, cols))
    /\ UNCHANGED <<raw, cols, db, fn, arg, res, prev>>

\* load_to_mysql: one executemany and one commit, or an error and no commit
LoadToMysql ==
    /\ pc = "load"
    /\ \/ /\ exc' = "mysql.connector.Error"
          /\ stages' = Append(stages, "load:start")
          /\ pc' = OnRaise("load")
          /\ rc' = IF pc' = "exit" THEN main_returns(TRUE) ELSE rc
          /\ UNCHANGED db
       \/ /\ db.st = "table"
          /\ db' = [db EXCEPT !.rows = db.rows \o canon]
          /\ stages' = stages \o <<"load:start", "load:done">>
          /\ pc' = "summary"
          /\ UNCHANGED <<exc, rc>>
    /\ UNCHANGED <<raw, cols, canon, fn, arg, res, prev>>

\* the summary log of run_etl, then main returns
Finish ==
    /\ pc = "summary"
    /\ pc' = "exit"
    /\ rc' = main_returns(FALSE)
    /\ UNCHANGED <<raw, cols, canon, exc, db, stages, fn, arg, res, prev>>

Next == Construct \/ RecreateDatabase \/ CreateTable \/ ExtractData \/ LoadToMysql
        \/ Finish

Spec == Init /\ [][Next]_vars

----------------------------------------------------------------------------
(* One record through extract_data *)

InitRecord ==
    /\ pc = "record"
    /\ \E r \in RawRecords : raw = <<r>>
    /\ cols = FieldSet
    /\ db = NoDb /\ canon = <<>> /\ exc = "" /\ stages = <<>> /\ rc = -1
    /\ fn = "" /\ arg = PyNone /\ res = Idle /\ prev = Idle

Processed(v) == canon' = v.df /\ exc' = v.exc

ProcessRecord ==
    /\ pc = "record"
    /\ Processed(extract_data(raw, cols))
    /\ pc' = "processed"
    /\ UNCHANGED <<raw, cols, db, stages, rc, fn, arg, res, prev>>

NextRecord == ProcessRecord

SpecRecord == InitRecord /\ [][NextRecord]_vars

----------------------------------------------------------------------------
(* The validators called on their own *)

Validate(f, x) == CASE f = "email" -> validate_email(x)
                    [] f = "phone" -> validate_phone(x)
                    [] OTHER -> validate_age(x)

ArgsOf(f) == CASE f = "email" -> EmailArgs
               [] f = "phone" -> PhoneArgs
               [] OTHER -> AgeArgs

InitValidators ==
    /\ pc = "call"
    /\ fn \in {"email", "phone", "age"}
    /\ arg \in ArgsOf(fn)
    /\ res = Idle /\ prev = Idle
    /\ raw = <<>> /\ cols = FieldSet /\ db = NoDb /\ canon = <<>> /\ exc = ""
    /\ stages = <<>> /\ rc = -1

CallValidator ==
    /\ pc = "call"
    /\ res' = Validate(fn, arg)
    /\ pc' = "called"
    /\ UNCHANGED <<raw, cols, canon, exc, db, stages, rc, fn, arg, prev>>

\* validate_phone on the canonical string it has just returned
Revalidate ==
    /\ pc = "called"
    /\ fn = "phone"
    /\ res.exc = "" /\ res.err = <<>>
    /\ prev' = res
    /\ arg' = res.value
    /\ res' = validate_phone(res.value)
    /\ pc' = "revalidated"
    /\ UNCHANGED <<raw, cols, canon, exc, db, stages, rc, fn>>

NextValidators == CallValidator \/ Revalidate

SpecValidators == InitValidators /\ [][NextValidators]_vars

----------------------------------------------------------------------------
(* Properties *)

Range(s) == {s[i] : i \in 1..Len(s)}

\* the argument's text as validate_phone and validate_email see it
RawText(x) == Strip(CollapseWs(PyStrOf(x)))

\* <field> has its "is empty" diagnostic in errors
HasEmptyDiag(errors, field) ==
    \E i \in 1..(Len(errors) - 1) : errors[i] = field /\ errors[i + 1] = " is empty"

\* the field a piece of errors opens a diagnostic of (1..6), or 0
MarkerRank(piece) ==
    CASE piece = "full_name" -> 1
      [] piece = "country" -> 2
      [] piece = "region" -> 3
      [] piece \in {"Email is empty", "Invalid email format: "} -> 4
      [] piece \in {"Phone is empty", "Phone too short: ", "Invalid phone '"} -> 5
      [] piece \in {"Age is empty", "Invalid age format: ", "Age "} -> 6
      [] OTHER -> 0

\* the positions in errors where a diagnostic starts
MarkerPositions(errors) == {i \in 1..Len(errors) : MarkerRank(errors[i]) > 0}

HasDiag(errors, rank) == \E i \in MarkerPositions(errors) : MarkerRank(errors[i]) = rank

RecordDone == pc = "processed" /\ exc = "" /\ Len(canon) = 1

RawPresent(x) == ~IsNa(x) /\ Strip(PyStrOf(x)) # <<>>

ExtractAttempted == "extract:start" \in Range(stages)

\* C1 (as claimed): whatever the cells of a table of N rows hold, validation
\* raises nothing and extraction yields N canonical records in the rows' order.
C1_NoExceptionSameOrder ==
    (ExtractAttempted /\ cols = FieldSet /\ exc # "read_excel failed") =>
        /\ exc # "OverflowError"
        /\ Len(canon) = Len(raw)
        /\ \A i \in 1..Len(raw) :
               canon[i] = ValidateRow(CleanRow(raw[i], cols), cols).rec

\* C2 (as claimed): errors is empty iff full_name, country and region were
\* present and non-blank in the raw record and email, phone and age each came
\* back non-absent.
C2_ErrorsEmptyIffAllValid ==
    RecordDone =>
        (canon[1].errors = <<>>
         <=> /\ \A i \in 1..Len(required_fields) : RawPresent(raw[1][required_fields[i]])
             /\ canon[1].email # PyNone
             /\ canon[1].phone # PyNone
             /\ canon[1].age # PyNone)

\* C3 (as claimed): a required field that is absent in the raw record, or
\* blank after normalization, gets "<field> is empty"; any other keeps its
\* normalized value and gets no such diagnostic.
C3_RequiredFieldDiagnosed ==
    RecordDone =>
        \A i \in 1..Len(required_fields) :
            LET f == required_fields[i]
                blank == IsNa(raw[1][f]) \/ remove_double_spaces(raw[1][f]) = <<>>
            IN IF blank THEN HasEmptyDiag(canon[1].errors, f)
               ELSE /\ ~HasEmptyDiag(canon[1].errors, f)
                    /\ canon[1][f] = PyStr(remove_double_spaces(raw[1][f]))

\* C4 (as claimed): a field whose diagnostic is in errors is stored as absent,
\* for all six fields.
C4_FailedFieldAbsent ==
    RecordDone =>
        /\ \A i \in 1..Len(required_fields) :
               HasDiag(canon[1].errors, i) => canon[1][required_fields[i]] = PyNone
        /\ HasDiag(canon[1].errors, 4) => canon[1].email = PyNone
        /\ HasDiag(canon[1].errors, 5) => canon[1].phone = PyNone
        /\ HasDiag(canon[1].errors, 6) => canon[1].age = PyNone

EmptyDiagOf(f) == CASE f = "email" -> <<"Email is empty">>
                    [] f = "phone" -> <<"Phone is empty">>
                    [] OTHER -> <<"Age is empty">>

\* C5 (as claimed): null, NaN, the empty string and whitespace-only strings
\* all return (absent, "<Field> is empty") from each of the three validators.
C5_BlankIsEmpty ==
    (pc = "called" /\ arg \in Blanks) => res = Fail(EmptyDiagOf(fn))

\* a raw phone the code does not take for empty
NonBlankPhone(x) == ~IsNa(x) /\ ~Falsy(x) /\ RawText(x) # <<>>

\* the candidate of the claim: the first applicable rule, in the fixed order
Candidate(digits) ==
    IF Len(digits) = 11 /\ digits[1] = "8" THEN <<"+", "7">> \o Tail(digits)
    ELSE IF Len(digits) = 11 /\ digits[1] = "7" THEN <<"+">> \o digits
    ELSE IF Len(digits) = 10 /\ digits[1] = "9" THEN <<"+", "7">> \o digits
    ELSE <<"+">> \o digits

\* the countries one of whose codes is a literal prefix of c after the '+'
PrefixMatches(c) ==
    {i \in 1..Len(COUNTRY_CODES) :
        \E j \in 1..Len(COUNTRY_CODES[i].codes) :
            StartsWith(Tail(c), COUNTRY_CODES[i].codes[j])}

InvalidPhone(rawtext, why) == Fail(<<"Invalid phone '">> \o rawtext \o <<"': ">> \o why)

PhoneAsClaimed(rawtext, digits, c, r) ==
    IF Len(digits) < 10 THEN r = Fail(<<"Phone too short: ">> \o rawtext)
    ELSE IF \E i \in PrefixMatches(c) : Len(c) = 1 + COUNTRY_CODES[i].length
    THEN r = Ok(PyStr(c))
    ELSE IF PrefixMatches(c) # {}
    THEN \E i \in PrefixMatches(c) :
             r = InvalidPhone(rawtext, <<"Invalid length for ", COUNTRY_CODES[i].country>>)
    ELSE r = InvalidPhone(rawtext, <<"Unknown country code">>)

\* C6: for every non-blank raw phone, validate_phone returns "Phone too short"
\* under 10 digits, else builds the candidate by the first applicable rule and
\* accepts it exactly when a country code is a prefix of it and its length is
\* 1 + that country's length; a prefix match of another length is "Invalid
\* length for <country>", no prefix match is "Unknown country code".
C6_PhoneRules ==
    (pc = "called" /\ fn = "phone" /\ NonBlankPhone(arg)) =>
        PhoneAsClaimed(RawText(arg), OnlyDigits(RawText(arg)),
                       Candidate(OnlyDigits(RawText(arg))), res)

\* a 10-digit number starting with 9 was accepted as a Russian mobile
C6_Witness ==
    /\ pc = "called" /\ fn = "phone"
    /\ Len(OnlyDigits(RawText(arg))) = 10
    /\ OnlyDigits(RawText(arg))[1] = "9"
    /\ res.err = <<>> /\ res.value.t = "str"
    /\ Len(res.value.s) = 12

\* C7: validate_phone is idempotent on what it accepts: validating the
\* canonical string it returned returns that string again and no diagnostic.
C7_PhoneIdempotent ==
    pc = "revalidated" => (res = prev /\ res.err = <<>> /\ res.value = arg)

\* a number of a country whose code starts with 9 went through both calls
C7_Witness ==
    /\ pc = "revalidated"
    /\ StartsWith(prev.value.s, <<"+", "9", "9", "8">>)
    /\ res.value.t = "str"

\* the integers the rounding of the age inputs can give
AgeInts == -5..(AgeTop + 1)

AgeAsClaimed(n, r) ==
    IF 18 <= n /\ n <= 120 THEN r = Ok(PyInt(n))
    ELSE r = Fail(<<"Age ">> \o IntToStr(n) \o <<" out of range (18-120)">>)

\* C8: a raw age that parses as a number is rounded to a nearest integer n,
\* 17.5 to 18, and validate_age returns (n, "") exactly when 18 <= n <= 120 and
\* "Age n out of range (18-120)" otherwise; a raw age that does not parse as a
\* number returns "Invalid age format: <value>".
C8_AgeRounding ==
    (pc = "called" /\ fn = "age" /\ ~IsNa(arg) /\ arg # PyStr(<<>>)) =>
        LET q == PyFloatOf(arg)
        IN CASE q.k = "num" ->
                    \E n \in AgeInts :
                        /\ 2 * Abs(n * q.den - q.num) <= q.den
                        /\ (2 * q.num = 35 * q.den => n = 18)
                        /\ AgeAsClaimed(n, res)
             [] q.k = "inf" -> TRUE
             [] OTHER -> res = Fail(<<"Invalid age format: ">> \o PyStrOf(arg))

\* 17.5 came back as 18
C8_Witness ==
    /\ pc = "called" /\ fn = "age"
    /\ arg = PyFloat(175)
    /\ res = Ok(PyInt(18))

\* C9: errors is the record's diagnostics joined with "; " in the order
\* full_name, country, region, email, phone, age: diagnostics appear in that
\* order, one per failing field, with "; " between them and nowhere else.
C9_ErrorsOrdered ==
    RecordDone =>
        LET errors == canon[1].errors
            pos == MarkerPositions(errors)
        IN /\ \A i, j \in pos : i < j => MarkerRank(errors[i]) < MarkerRank(errors[j])
           /\ errors # <<>> => 1 \in pos
           /\ \A i \in 2..Len(errors) : (errors[i - 1] = "; ") <=> (i \in pos)
           /\ \A i \in 1..Len(required_fields) :
                  HasDiag(errors, i) <=> canon[1][required_fields[i]] = PyStr(<<>>)
           /\ HasDiag(errors, 4) <=> canon[1].email = PyNone
           /\ HasDiag(errors, 5) <=> canon[1].phone = PyNone
           /\ HasDiag(errors, 6) <=> canon[1].age = PyNone

\* a record in which a required field, the email and the age all failed
C9_Witness ==
    /\ RecordDone
    /\ HasDiag(canon[1].errors, 2)
    /\ HasDiag(canon[1].errors, 4)
    /\ HasDiag(canon[1].errors, 6)
    /\ canon[1].phone # PyNone

IsPrefixOf(s, full) == Len(s) <= Len(full) /\ SubSeq(full, 1, Len(s)) = s

\* C10: the stages of run_etl happen in the order recreate, extract, load, each
\* only after the one before completed; rows are inserted only into the table
\* recreated in this run and never after a failed recreation or extraction (a
\* failed extraction leaves the table recreated and empty); main returns 0
\* iff all three stages completed and 1 otherwise.
C10_StagesInOrder ==
    /\ IsPrefixOf(stages, FullRun)
    /\ "load:done" \in Range(stages) => db = [st |-> "table", rows |-> canon]
    /\ "load:start" \notin Range(stages) => db \in {NoDb, NoTable, EmptyTable, StaleTable}
    /\ ("recreate:done" \in Range(stages) /\ "load:done" \notin Range(stages))
           => db = EmptyTable
    /\ pc = "exit" => (rc = 0 <=> stages = FullRun) /\ rc \in {0, 1}
    /\ pc # "exit" => rc = -1

\* a run whose extraction raised after the table was recreated
C10_Witness ==
    /\ pc = "exit" /\ rc = 1
    /\ stages = <<"recreate:start", "recreate:done", "extract:start">>
    /\ exc = "OverflowError"
    /\ db = EmptyTable

====
